---- MODULE Spec2Model ----
(***************************************************************************)
(* Traits and generics as src/src/main.rs presents them: trait             *)
(* declarations, impl blocks and the rule that admits them, subtraits,     *)
(* trait objects (fat pointer + vtable), generic functions and their       *)
(* compiled copies, and the method bodies the file spells out              *)
(* (Sink::write, the default Write::write_all).                            *)
(***************************************************************************)
EXTENDS Integers, Sequences, FiniteSets, TLC

(***************************************************************************)
(* Bounds of the model.                                                    *)
(***************************************************************************)
\* impl blocks of a program being written
MaxImpls == 3
\* bytes a Vec<u8> holds at most
MaxBytes == 2
\* compiled copies of generic functions at most
MaxCopies == 2
\* elements of a slice handed to dot at most
MaxLen == 2
\* bytes of a buffer handed to write_all at most
MaxBuf == 3
\* calls of write counted within one write_all at most
MaxCalls == 4

(***************************************************************************)
(* The crates, types and traits the file names.                            *)
(***************************************************************************)
\* "std" is the standard library, "game" the crate being written
\* ("the current crate"), "serde" a third-party crate.
Crates == {"std", "game", "serde"}

\* Where each type is introduced.
TypeCrate ==
    [VecU8 |-> "std", Sink |-> "std", Broom |-> "game", CherryTree |-> "game",
     SortedStringSet |-> "game"]

Types == DOMAIN TypeCrate

\* One method signature of a trait:
\*   receiver: the method takes self;
\*   selfArg:  the Self type is the type of a parameter other than self;
\*   selfRet:  the Self type is the return type;
\*   sized:    the method carries the bound `where Self: Sized`;
\*   default:  the trait supplies a body.
Method(name, receiver, selfArg, selfRet, sized, default) ==
    [name |-> name, receiver |-> receiver, selfArg |-> selfArg,
     selfRet |-> selfRet, sized |-> sized, default |-> default]

\* A method that takes self and does not mention the Self type.
Plain(name) == Method(name, TRUE, FALSE, FALSE, FALSE, FALSE)

\* The trait declarations of the file: crate, supertraits, methods in order.
TraitDecl ==
    [Write |->
        [crate |-> "std", supers |-> {},
         methods |-> << Plain("write"), Plain("flush"),
                        Method("write_all", TRUE, FALSE, FALSE, FALSE, TRUE) >>],
     Clone |->
        [crate |-> "std", supers |-> {},
         methods |-> << Method("clone", TRUE, FALSE, TRUE, FALSE, FALSE) >>],
     Visible |->
        [crate |-> "game", supers |-> {},
         methods |-> << Plain("draw"), Plain("hit_test") >>],
     Creature |->
        [crate |-> "game", supers |-> {"Visible"},
         methods |-> << Plain("position"), Plain("facing") >>],
     Spliceable |->
        [crate |-> "game", supers |-> {},
         methods |-> << Method("splice", TRUE, TRUE, TRUE, FALSE, FALSE) >>],
     MegaSpliceable |->
        [crate |-> "game", supers |-> {},
         methods |-> << Plain("splice") >>],
     StringSet |->
        [crate |-> "game", supers |-> {},
         methods |-> << Method("new", FALSE, FALSE, TRUE, FALSE, FALSE),
                        Method("from_slice", FALSE, FALSE, TRUE, FALSE, FALSE),
                        Plain("contains"), Plain("add") >>],
     StringSetSized |->
        [crate |-> "game", supers |-> {},
         methods |-> << Method("new", FALSE, FALSE, TRUE, TRUE, FALSE),
                        Method("from_slice", FALSE, FALSE, TRUE, TRUE, FALSE),
                        Plain("contains"), Plain("add") >>]]

VARIABLES
    traits,     \* the trait declarations of the program
    impls,      \* the impl blocks accepted so far: [crate, trait, type]
    vtables,    \* the vtables generated so far, by <<trait, type>>
    objects,    \* the trait objects made so far: [data, vtable]
    bytes,      \* the contents of the Vec<u8> named bytes
    compiled,   \* the compiled copies of generic functions, in order
    result      \* what the last operation answered

vars == << traits, impls, vtables, objects, bytes, compiled, result >>

\* The impl blocks the file shows.
SourceImpls ==
    { [crate |-> "std", trait |-> "Write", type |-> "VecU8"],
      [crate |-> "std", trait |-> "Write", type |-> "Sink"],
      [crate |-> "std", trait |-> "Clone", type |-> "VecU8"],
      [crate |-> "game", trait |-> "Visible", type |-> "Broom"],
      [crate |-> "game", trait |-> "Creature", type |-> "Broom"],
      [crate |-> "game", trait |-> "Spliceable", type |-> "CherryTree"],
      [crate |-> "game", trait |-> "StringSet", type |-> "SortedStringSet"],
      [crate |-> "game", trait |-> "StringSetSized", type |-> "SortedStringSet"] }

\* Values of the file's types: bytes, sink and set1 are named in the file,
\* tree stands for a cherry tree.
TypeOf ==
    [bytes |-> "VecU8", sink |-> "Sink", tree |-> "CherryTree",
     set1 |-> "SortedStringSet"]

Values == DOMAIN TypeOf

\* The buffers handed to write.
Bufs == { <<>>, <<1>>, <<1, 2>> }

\* The generic functions of the file, each with the bounds on its type parameter.
GenericFn ==
    [say_hello |-> {"Write"}, unknown_words |-> {"StringSet"}]

(***************************************************************************)
(* impl Trait for Type, written in `crate`.                                *)
(***************************************************************************)
\* A rule that wants both the trait and the type in the current crate.
ImplAllowedBoth(crate, trait, type) ==
    traits[trait].crate = crate /\ TypeCrate[type] = crate

\* A rule that also wants the supertraits implemented for the type beforehand.
ImplAllowedAfterSupers(crate, trait, type) ==
    /\ traits[trait].crate = crate \/ TypeCrate[type] = crate
    /\ \A s \in traits[trait].supers :
          \E r \in impls : r.trait = s /\ r.type = type

\* "either the trait or the type is introduced in the current crate"
ImplAllowed(crate, trait, type) ==
    traits[trait].crate = crate \/ TypeCrate[type] = crate

Impl(crate, trait, type) ==
    /\ Cardinality(impls \cup {[crate |-> crate, trait |-> trait, type |-> type]})
          <= MaxImpls
    /\ IF ImplAllowed(crate, trait, type)
       THEN /\ impls' = impls \cup {[crate |-> crate, trait |-> trait, type |-> type]}
            /\ result' = [op |-> "impl", crate |-> crate, trait |-> trait,
                          type |-> type, answer |-> "ok"]
       ELSE /\ impls' = impls
            /\ result' = [op |-> "impl", crate |-> crate, trait |-> trait,
                          type |-> type, answer |-> "error: orphan"]
    /\ UNCHANGED << traits, vtables, objects, bytes, compiled >>

(***************************************************************************)
(* Bounds: T: Trait.                                                       *)
(***************************************************************************)
HasImpl(type, trait) ==
    \E r \in impls : r.trait = trait /\ r.type = type

\* A check that looks at the trait and the supertraits it names, no further.
SatisfiesDirect(type, trait) ==
    /\ HasImpl(type, trait)
    /\ \A s \in traits[trait].supers : HasImpl(type, s)

\* A type meets the bound when it implements the trait and, the trait being
\* an extension of its supertraits, meets each of those as well.
RECURSIVE Satisfies(_, _)
Satisfies(type, trait) ==
    /\ HasImpl(type, trait)
    /\ \A s \in traits[trait].supers : Satisfies(type, s)

\* where T: bounds, asked of `type`.
CheckBound(type, bounds) ==
    /\ result' = [op |-> "bound", type |-> type, bounds |-> bounds,
                  answer |-> IF \A b \in bounds : Satisfies(type, b)
                             THEN "ok"
                             ELSE "error: bound not satisfied"]
    /\ UNCHANGED << traits, impls, vtables, objects, bytes, compiled >>

(***************************************************************************)
(* Generic functions: one compiled copy per type used.                     *)
(***************************************************************************)
\* Where the copy of fn for `type` is among the compiled copies.
CopyOf(fn, type) ==
    { i \in 1..Len(compiled) : compiled[i] = [fn |-> fn, type |-> type] }

\* A compiler that makes a copy at every call.
CompileAlways(fn, type) ==
    Append(compiled, [fn |-> fn, type |-> type])

\* A compiler that makes one copy per function, whatever the types.
CompilePerFn(fn, type) ==
    IF \E i \in 1..Len(compiled) : compiled[i].fn = fn
    THEN compiled
    ELSE Append(compiled, [fn |-> fn, type |-> type])

\* The compiled copies after a call of fn::<type>: only a type not used
\* before makes another copy.
Compile(fn, type) ==
    IF CopyOf(fn, type) = {}
    THEN Append(compiled, [fn |-> fn, type |-> type])
    ELSE compiled

\* A call of fn::<type>; `copy` is the compiled function the call goes to.
Instantiate(fn, type) ==
    /\ IF \A b \in GenericFn[fn] : Satisfies(type, b)
       THEN /\ Len(Compile(fn, type)) <= MaxCopies
            /\ compiled' = Compile(fn, type)
            /\ result' = [op |-> "instantiate", fn |-> fn, type |-> type,
                          answer |-> "ok",
                          fresh |-> (Len(compiled') > Len(compiled)),
                          copy |-> IF CopyOf(fn, type) = {}
                                   THEN Len(compiled')
                                   ELSE CHOOSE i \in CopyOf(fn, type) : TRUE]
       ELSE /\ compiled' = compiled
            /\ result' = [op |-> "instantiate", fn |-> fn, type |-> type,
                          answer |-> "error: bound not satisfied"]
    /\ UNCHANGED << traits, impls, vtables, objects, bytes >>

\* A compiler that tells the copies of a function apart by lifetimes too.
CopyNamePerLifetime(fn, lifetimes) ==
    << fn, lifetimes >>

\* What the compiled copies of fn go by: lifetimes have no part in it.
CopyName(fn, lifetimes) ==
    << fn >>

\* A call of fn::<'t, 'c, type>, fn being bounded by `bounds`.
InstantiateWith(fn, bounds, lifetimes, type) ==
    LET name == CopyName(fn, lifetimes)
    IN  /\ IF \A b \in bounds : Satisfies(type, b)
           THEN /\ Len(Compile(name, type)) <= MaxCopies
                /\ compiled' = Compile(name, type)
                /\ result' = [op |-> "instantiate", fn |-> fn, type |-> type,
                              lifetimes |-> lifetimes, answer |-> "ok",
                              fresh |-> (Len(compiled') > Len(compiled)),
                              copy |-> IF CopyOf(name, type) = {}
                                       THEN Len(compiled')
                                       ELSE CHOOSE i \in CopyOf(name, type) : TRUE]
           ELSE /\ compiled' = compiled
                /\ result' = [op |-> "instantiate", fn |-> fn, type |-> type,
                              lifetimes |-> lifetimes,
                              answer |-> "error: bound not satisfied"]
        /\ UNCHANGED << traits, impls, vtables, objects, bytes >>

(***************************************************************************)
(* Trait objects.                                                          *)
(***************************************************************************)
\* A check that lets a method return Self.
ObjectSafeArgsOnly(trait) ==
    \A i \in 1..Len(traits[trait].methods) :
        LET m == traits[trait].methods[i]
        IN  m.sized \/ (m.receiver /\ ~m.selfArg)

\* A check that excuses no method.
ObjectSafeNoExcuse(trait) ==
    \A i \in 1..Len(traits[trait].methods) :
        LET m == traits[trait].methods[i]
        IN  (m.receiver \/ m.sized) /\ ~m.selfArg /\ ~m.selfRet

\* A method a trait object has to support: one without `where Self: Sized`.
\* It needs a receiver and may not use the Self type.
ObjectSafe(trait) ==
    \A i \in 1..Len(traits[trait].methods) :
        LET m == traits[trait].methods[i]
        IN  m.sized \/ (m.receiver /\ ~m.selfArg /\ ~m.selfRet)

\* One table per trait, made for Sink whatever the type.
VtableOfTrait(trait, type) ==
    [ i \in 1..Len(traits[trait].methods) |->
        LET m == traits[trait].methods[i]
        IN  IF m.default
            THEN [of |-> trait, name |-> m.name]
            ELSE [of |-> "Sink", name |-> m.name] ]

\* The impl of the trait for the type gives a body for the method: it has to
\* when the trait has no default, and may when the trait has one.
Supplies(type, trait, m) ==
    \/ ~m.default
    \/ \E r \in impls : /\ r.trait = trait
                        /\ r.type = type
                        /\ "own" \in DOMAIN r
                        /\ m.name \in r.own

\* A table that takes the trait's default body wherever there is one.
VtableDefaultFirst(trait, type) ==
    [ i \in 1..Len(traits[trait].methods) |->
        LET m == traits[trait].methods[i]
        IN  IF m.default
            THEN [of |-> trait, name |-> m.name]
            ELSE [of |-> type, name |-> m.name] ]

\* The table of the type's methods for the trait: per method of the trait, in
\* order, the body the impl gives, or the trait's default body.
Vtable(trait, type) ==
    [ i \in 1..Len(traits[trait].methods) |->
        LET m == traits[trait].methods[i]
        IN  IF Supplies(type, trait, m)
            THEN [of |-> type, name |-> m.name]
            ELSE [of |-> trait, name |-> m.name] ]

\* A table generated at each conversion, in place of those there were.
GeneratedAlone(tables, trait, type) ==
    [ k \in {<< trait, type >>} |-> Vtable(trait, type) ]

\* The vtables once the one of the type for the trait is wanted: generated
\* once, and shared from then on.
Generated(tables, trait, type) ==
    IF << trait, type >> \in DOMAIN tables
    THEN tables
    ELSE [ k \in DOMAIN tables \cup {<< trait, type >>} |->
             IF k = << trait, type >> THEN Vtable(trait, type) ELSE tables[k] ]

\* &value as &Trait, value being of `type`: the pointer to the value plus the
\* pointer to the vtable.
ConvertOf(value, type, trait) ==
    LET key == << trait, type >>
    IN  /\ IF ~ObjectSafe(trait)
           THEN /\ UNCHANGED << vtables, objects >>
                /\ result' = [op |-> "convert", value |-> value, trait |-> trait,
                              answer |-> "error: cannot be made into an object"]
           ELSE IF ~Satisfies(type, trait)
           THEN /\ UNCHANGED << vtables, objects >>
                /\ result' = [op |-> "convert", value |-> value, trait |-> trait,
                              answer |-> "error: bound not satisfied"]
           ELSE /\ vtables' = Generated(vtables, trait, type)
                /\ objects' = objects \cup {[data |-> value, vtable |-> key]}
                /\ result' = [op |-> "convert", value |-> value, trait |-> trait,
                              answer |-> "ok",
                              object |-> [data |-> value, vtable |-> key]]
        /\ UNCHANGED << traits, impls, bytes, compiled >>

Convert(value, trait) ==
    ConvertOf(value, TypeOf[value], trait)

\* say_hello(out): the trait object is handed to a function, two words of it.
Pass(object) ==
    /\ result' = [op |-> "pass", object |-> object,
                  out |-> [data |-> object.data, vtable |-> object.vtable]]
    /\ UNCHANGED << traits, impls, vtables, objects, bytes, compiled >>

(***************************************************************************)
(* The method bodies the file gives, as [state, ret] from the contents of  *)
(* the receiver and the buffer.                                            *)
(***************************************************************************)
\* impl Write for Sink: claim to have written the whole buffer.
SinkWrite(contents, buf) ==
    [contents |-> contents, ret |-> Len(buf)]

\* Vec<u8>: each write appends the data to the end.
VecWrite(contents, buf) ==
    [contents |-> contents \o buf, ret |-> Len(buf)]

\* self.write(buf) through the receiver's own type.
WriteOf(type, contents, buf) ==
    IF type = "VecU8" THEN VecWrite(contents, buf) ELSE SinkWrite(contents, buf)

\* The default write_all: write the rest until all of buf is written.
RECURSIVE WriteAll(_, _, _, _)
WriteAll(type, contents, buf, bytes_written) ==
    IF bytes_written < Len(buf)
    THEN LET w == WriteOf(type, contents, SubSeq(buf, bytes_written + 1, Len(buf)))
         IN  WriteAll(type, w.contents, buf, bytes_written + w.ret)
    ELSE [contents |-> contents, ret |-> 0]

\* What running `body` on a receiver of `type` with `buf` does.
Run(body, type, contents, buf) ==
    IF body.name = "write" /\ body.of \in {"VecU8", "Sink"}
    THEN WriteOf(body.of, contents, buf)
    ELSE IF body.name = "write_all" /\ body.of = "Write"
    THEN WriteAll(type, contents, buf, 0)
    ELSE [contents |-> contents, ret |-> 0]

\* object.method(buf): the vtable of the object says which body runs, and
\* the body gets the object's data pointer as self.
Call(object, i, buf) ==
    LET table == vtables[object.vtable]
        body  == table[i]
        type  == TypeOf[object.data]
        mine  == IF object.data = "bytes" THEN bytes ELSE <<>>
        out   == Run(body, type, mine, buf)
    IN  /\ i \in DOMAIN table
        /\ ~traits[object.vtable[1]].methods[i].sized
        /\ Len(out.contents) <= MaxBytes
        /\ bytes' = IF object.data = "bytes" THEN out.contents ELSE bytes
        /\ result' = [op |-> "call", object |-> object, slot |-> i, buf |-> buf,
                      body |-> body, self |-> object.data, ret |-> out.ret]
        /\ UNCHANGED << traits, impls, vtables, objects, compiled >>

(***************************************************************************)
(* Using the program of the file: bounds, generic calls, trait objects.    *)
(***************************************************************************)
NoUse ==
    /\ vtables = << >>
    /\ objects = {}
    /\ bytes = << >>
    /\ compiled = << >>
    /\ result = [op |-> "none"]

Init ==
    /\ traits = TraitDecl
    /\ impls = SourceImpls
    /\ NoUse

Next ==
    \/ \E type \in Types, trait \in DOMAIN traits : CheckBound(type, {trait})
    \/ \E fn \in DOMAIN GenericFn, type \in Types : Instantiate(fn, type)
    \/ \E value \in Values, trait \in DOMAIN traits : Convert(value, trait)
    \/ \E object \in objects, i \in 1..4, buf \in Bufs : Call(object, i, buf)

Spec == Init /\ [][Next]_vars

(***************************************************************************)
(* Writing a program: impl blocks added one by one by the crates, with a   *)
(* further trait declared in "game" whose supertraits are drawn.           *)
(***************************************************************************)
\* A trait a program declares besides those of the file.
Drawn(supers, methods) ==
    [Drawn |-> [crate |-> "game", supers |-> supers, methods |-> methods]]

\* The impl blocks a program may add.
ImplTraits == {"Write", "Visible", "Creature", "Drawn"}

ImplTypes == {"VecU8", "Broom"}

InitProgram ==
    /\ \E supers \in SUBSET {"Visible", "Creature"} :
          traits = TraitDecl @@ Drawn(supers, << Plain("act") >>)
    /\ impls = {}
    /\ NoUse

NextProgram ==
    \/ \E crate \in Crates, trait \in ImplTraits, type \in ImplTypes :
          Impl(crate, trait, type)
    \/ \E type \in ImplTypes, trait \in ImplTraits : CheckBound(type, {trait})

SpecProgram == InitProgram /\ [][NextProgram]_vars

(***************************************************************************)
(* Trait objects of a further trait whose method signatures are drawn.     *)
(***************************************************************************)
\* Every shape of signature: with or without self, the Self type as a
\* parameter, as the return type, with or without `where Self: Sized`.
Shapes(name) ==
    { Method(name, r, a, t, z, FALSE) : r \in BOOLEAN, a \in BOOLEAN,
                                        t \in BOOLEAN, z \in BOOLEAN }

\* Traits of one method, and of two.
DrawnMethods ==
    { << m >> : m \in Shapes("first") }
        \cup { << m, n >> : m \in Shapes("first"), n \in Shapes("second") }

\* The traits a program then makes trait objects of.
DeclTraits == {"Drawn", "StringSet", "StringSetSized"}

InitDecl ==
    /\ \E methods \in DrawnMethods : traits = TraitDecl @@ Drawn({}, methods)
    /\ impls = SourceImpls
                \cup {[crate |-> "game", trait |-> "Drawn", type |-> "SortedStringSet"]}
    /\ NoUse

NextDecl ==
    \/ \E value \in Values, trait \in DeclTraits : Convert(value, trait)
    \/ \E type \in Types, trait \in DeclTraits : CheckBound(type, {trait})

SpecDecl == InitDecl /\ [][NextDecl]_vars

(***************************************************************************)
(* Generic functions with lifetime parameters: nearest<'t, 'c, P>.         *)
(***************************************************************************)
\* trait MeasureDistance, of which the file shows the name only.
MeasureDistanceDecl ==
    [MeasureDistance |-> [crate |-> "game", supers |-> {}, methods |-> << >>]]

\* The point types nearest is used on, and a type that measures no distance.
PointTypes == {"Point2d", "Point3d"}

NearestTypes == PointTypes \cup {"Broom"}

\* The lifetimes a call may give to 't and 'c.
Lifetimes == {"a", "b", "static"}

\* The generic functions with lifetime parameters, each with its bounds.
LifetimeFn ==
    [nearest |-> {"MeasureDistance"}]

InitLifetimes ==
    /\ traits = TraitDecl @@ MeasureDistanceDecl
    /\ impls = SourceImpls
                \cup { [crate |-> "game", trait |-> "MeasureDistance", type |-> p] :
                        p \in PointTypes }
    /\ NoUse

NextLifetimes ==
    \E fn \in DOMAIN LifetimeFn, t \in Lifetimes, c \in Lifetimes,
       type \in NearestTypes :
        InstantiateWith(fn, LifetimeFn[fn], << t, c >>, type)

SpecLifetimes == InitLifetimes /\ [][NextLifetimes]_vars

(***************************************************************************)
(* Vtables of types whose impls give bodies of their own for methods the   *)
(* trait has defaults for.                                                 *)
(***************************************************************************)
\* A method of a further trait, with a default body or without.
DrawnMethod(name, default) ==
    Method(name, TRUE, FALSE, FALSE, FALSE, default)

\* The method lists of the further trait: one or two methods.
VtableMethods ==
    { << DrawnMethod("paint", d) >> : d \in BOOLEAN }
    \cup { << DrawnMethod("paint", d), DrawnMethod("erase", e) >> :
            d \in BOOLEAN, e \in BOOLEAN }

\* The values made into trait objects: bytes and buf are vectors of bytes.
VtableTypeOf ==
    [bytes |-> "VecU8", buf |-> "VecU8", sink |-> "Sink"]

VtableTraits == {"Write", "Drawn"}

InitVtable ==
    /\ \E methods \in VtableMethods :
        /\ traits = TraitDecl @@ Drawn({}, methods)
        /\ \E mine \in SUBSET { methods[i].name : i \in DOMAIN methods },
              all \in SUBSET {"write_all"} :
            /\ \A i \in DOMAIN methods : methods[i].name \in mine => methods[i].default
            /\ impls = { [crate |-> "std", trait |-> "Write", type |-> "Sink"],
                         [crate |-> "std", trait |-> "Write", type |-> "VecU8",
                          own |-> all],
                         [crate |-> "game", trait |-> "Drawn", type |-> "Sink",
                          own |-> mine] }
    /\ NoUse

NextVtable ==
    \/ \E value \in DOMAIN VtableTypeOf, trait \in VtableTraits :
          ConvertOf(value, VtableTypeOf[value], trait)
    \/ \E object \in objects : Pass(object)

SpecVtable == InitVtable /\ [][NextVtable]_vars

(***************************************************************************)
(* Associated types: Iterator<Item=String>, Add<Output=N>, Mul<Output=N>.  *)
(***************************************************************************)
\* The associated types of a trait that has none.
NoAssoc == [s \in {} |-> "none"]

\* The traits with associated types, and Default, which dot needs too.
AssocDecl ==
    [Iterator |-> [crate |-> "std", supers |-> {}, assoc |-> {"Item"},
                   methods |-> << Plain("next") >>],
     Add      |-> [crate |-> "std", supers |-> {}, assoc |-> {"Output"},
                   methods |-> << Method("add", TRUE, TRUE, FALSE, FALSE, FALSE) >>],
     Mul      |-> [crate |-> "std", supers |-> {}, assoc |-> {"Output"},
                   methods |-> << Method("mul", TRUE, TRUE, FALSE, FALSE, FALSE) >>],
     Default  |-> [crate |-> "std", supers |-> {}, assoc |-> {},
                   methods |-> << Method("default", FALSE, FALSE, TRUE, FALSE, FALSE) >>]]

\* impl Iterator for Args { type Item = String; }, and the numbers of
\* test_dot, which add and multiply to their own type and have a default.
AssocImpls ==
    { [crate |-> "std", trait |-> "Iterator", type |-> "Args",
       assoc |-> [Item |-> "String"]] }
    \cup { [crate |-> "std", trait |-> op, type |-> n, assoc |-> [Output |-> n]] :
            op \in {"Add", "Mul"}, n \in {"i64", "f64"} }
    \cup { [crate |-> "std", trait |-> "Default", type |-> n, assoc |-> NoAssoc] :
            n \in {"i64", "f64"} }

\* The impls a further crate may write for its types Words and Complex:
\* each operator with the Output it chooses.
DrawnAssocImpls ==
    { [crate |-> "game", trait |-> "Iterator", type |-> "Words",
       assoc |-> [Item |-> x]] : x \in {"String", "usize"} }
    \cup { [crate |-> "game", trait |-> op, type |-> "Complex",
            assoc |-> [Output |-> x]] :
            op \in {"Add", "Mul"}, x \in {"Complex", "f64"} }
    \cup { [crate |-> "game", trait |-> "Default", type |-> "Complex",
            assoc |-> NoAssoc] }

AssocTypes == {"Args", "i64", "f64", "Words", "Complex"}

\* One bound of a where clause, T: trait<slot=X>; X = "N" is the type
\* parameter itself.
Bound(trait, eq) ==
    [trait |-> trait, eq |-> eq]

\* The where clauses of collect_into_vector, dump and dot.
AssocFn ==
    [collect_into_vector |-> { Bound("Iterator", NoAssoc) },
     dump |-> { Bound("Iterator", [Item |-> "String"]) },
     dot  |-> { Bound("Add", [Output |-> "N"]), Bound("Mul", [Output |-> "N"]),
                Bound("Default", NoAssoc) }]

\* The type a bound asks for, N standing for the type the function is used with.
Resolve(x, type) ==
    IF x = "N" THEN type ELSE x

\* The impl of trait for type.
ImplOf(type, trait) ==
    CHOOSE r \in impls : r.trait = trait /\ r.type = type

\* A compiler that takes every implementor of the trait, whatever it assigns.
MismatchedNever(type, b) ==
    FALSE

\* The type implements the trait of the bound but is outside the subset the
\* bound names: some associated type is not the one asked for.
Mismatched(type, b) ==
    /\ Satisfies(type, b.trait)
    /\ \E s \in DOMAIN b.eq :
          ImplOf(type, b.trait).assoc[s] # Resolve(b.eq[s], type)

\* What the compiler reports of a where clause used with a type.
WhereErrors(type, bounds) ==
    { [trait |-> b.trait, error |-> "bound not satisfied"] :
        b \in { x \in bounds : ~Satisfies(type, x.trait) } }
    \cup { [trait |-> b.trait, error |-> "type mismatch"] :
            b \in { x \in bounds : Mismatched(type, x) } }

\* The associated types of every trait of the where clause, as the impls for
\* the type assign them (I::Item in Vec<I::Item>).
Substitution(type, bounds) ==
    [t \in { b.trait : b \in bounds } |-> ImplOf(type, t).assoc]

\* A use of the generic function fn with a type.
UseWhere(fn, bounds, type) ==
    /\ result' = IF WhereErrors(type, bounds) = {}
                 THEN [op |-> "where", fn |-> fn, type |-> type, answer |-> "ok",
                       errors |-> {}, subst |-> Substitution(type, bounds)]
                 ELSE [op |-> "where", fn |-> fn, type |-> type,
                       answer |-> "error",
                       errors |-> WhereErrors(type, bounds)]
    /\ UNCHANGED << traits, impls, vtables, objects, bytes, compiled >>

InitAssoc ==
    /\ traits = AssocDecl
    /\ \E drawn \in SUBSET DrawnAssocImpls :
          /\ \A r, q \in drawn : (r.trait = q.trait /\ r.type = q.type) => r = q
          /\ impls = AssocImpls \cup drawn
    /\ NoUse

NextAssoc ==
    \E fn \in DOMAIN AssocFn, type \in AssocTypes :
        UseWhere(fn, AssocFn[fn], type)

SpecAssoc == InitAssoc /\ [][NextAssoc]_vars

(***************************************************************************)
(* dot<N>(v1, v2), used with N = i8.                                       *)
(***************************************************************************)
\* The bits of an i8.
I8Bits == 8

I8Min == -(2 ^ (I8Bits - 1))

I8Max == 2 ^ (I8Bits - 1) - 1

\* The i8 values the slices are made of.
I8Values == {I8Min, -1, 0, 1, 2, I8Max}

\* The slices of at most n elements.
Slices(n) ==
    UNION { [1..k -> I8Values] : k \in 0..n }

\* The result of + or * does not fit the type.
Overflows(x) ==
    x < I8Min \/ x > I8Max

\* What is left of a result in the bits of the type (two's complement).
Wrap(x) ==
    ((x - I8Min) % (2 ^ I8Bits)) + I8Min

\* Arithmetic is checked in a debug build and wraps in a release build.
Builds == {"debug", "release"}

\* "For numeric types, the default is always 0."
NumDefault == 0

\* for i in 0 .. v1.len() { total = total + v1[i] * v2[i]; } total
\* from element i (counted from 1) on.
RECURSIVE DotLoop(_, _, _, _, _)
DotLoop(build, v1, v2, i, total) ==
    IF i > Len(v1)
    THEN [answer |-> "ok", ret |-> total]
    ELSE IF i > Len(v2)
    THEN [answer |-> "panic: index out of bounds"]
    ELSE IF build = "debug"
            /\ (Overflows(v1[i] * v2[i]) \/ Overflows(total + v1[i] * v2[i]))
    THEN [answer |-> "panic: arithmetic overflow"]
    ELSE DotLoop(build, v1, v2, i + 1, Wrap(total + Wrap(v1[i] * v2[i])))

\* let mut total = N::default(); ...
DotOf(build, v1, v2) ==
    DotLoop(build, v1, v2, 1, NumDefault)

\* The call dot(&v1, &v2) that is about to be made is made.
Dot ==
    /\ result.op = "dot args"
    /\ result' = [op |-> "dot", build |-> result.build, v1 |-> result.v1,
                  v2 |-> result.v2]
                    @@ DotOf(result.build, result.v1, result.v2)
    /\ UNCHANGED << traits, impls, vtables, objects, bytes, compiled >>

\* A program built in either way, about to call dot on two slices.
InitDot ==
    /\ traits = AssocDecl
    /\ impls = AssocImpls
    /\ vtables = << >>
    /\ objects = {}
    /\ bytes = << >>
    /\ compiled = << >>
    /\ \E build \in Builds, v1 \in Slices(MaxLen), v2 \in Slices(MaxLen) :
          result = [op |-> "dot args", build |-> build, v1 |-> v1, v2 |-> v2]

NextDot ==
    Dot

SpecDot == InitDot /\ [][NextDot]_vars

(***************************************************************************)
(* The machine code of the compiled copies: which methods a copy calls.    *)
(***************************************************************************)
\* The trait methods the body of each generic function calls, in order.
FnCalls ==
    [say_hello |->
        << [trait |-> "Write", name |-> "write_all"],
           [trait |-> "Write", name |-> "flush"] >>,
     unknown_words |->
        << [trait |-> "StringSet", name |-> "new"],
           [trait |-> "StringSet", name |-> "contains"],
           [trait |-> "StringSet", name |-> "add"] >>]

\* The value of each type the copies are run on.
ValueOf ==
    [VecU8 |-> "bytes", Sink |-> "sink", SortedStringSet |-> "set1"]

\* The method of the trait that goes by the name.
MethodNamed(trait, name) ==
    CHOOSE m \in { traits[trait].methods[i] : i \in 1..Len(traits[trait].methods) } :
        m.name = name

\* The method a call in the copy for `type` is compiled to: the type's own
\* body, or the trait's default body with the type for Self.
Resolved(type, trait, name) ==
    [type |-> type,
     body |-> IF Supplies(type, trait, MethodNamed(trait, name))
              THEN [of |-> type, name |-> name]
              ELSE [of |-> trait, name |-> name]]

\* The calls of the copy of fn for `type`.
MachineCode(fn, type) ==
    [ k \in 1..Len(FnCalls[fn]) |->
        Resolved(type, FnCalls[fn][k].trait, FnCalls[fn][k].name) ]

\* The contents of the receiver after the calls from the k-th on.
RECURSIVE RunAll(_, _, _, _)
RunAll(calls, contents, buf, k) ==
    IF k > Len(calls) THEN contents
    ELSE RunAll(calls,
                Run(calls[k].body, calls[k].type, contents, buf).contents,
                buf, k + 1)

\* The compiled copy i is run on the value of its type, with buf to write.
RunCopy(i, buf) ==
    /\ i \in 1..Len(compiled)
    /\ LET fn    == compiled[i].fn
           type  == compiled[i].type
           calls == MachineCode(fn, type)
           mine  == IF ValueOf[type] = "bytes" THEN bytes ELSE << >>
           out   == RunAll(calls, mine, buf, 1)
       IN  /\ Len(out) <= MaxBytes
           /\ bytes' = IF ValueOf[type] = "bytes" THEN out ELSE bytes
           /\ result' = [op |-> "run", copy |-> i, buf |-> buf,
                         self |-> ValueOf[type], calls |-> calls]
    /\ UNCHANGED << traits, impls, vtables, objects, compiled >>

NextCopies ==
    \/ \E fn \in DOMAIN GenericFn, type \in Types : Instantiate(fn, type)
    \/ \E i \in 1..(MaxCopies + 1), buf \in Bufs : RunCopy(i, buf)

SpecCopies == Init /\ [][NextCopies]_vars

(***************************************************************************)
(* The default write_all, one call of write at a time, over writers whose  *)
(* write may take any part of the buffer or fail.                          *)
(***************************************************************************)
\* The buffers handed to write_all.
WriteAllBufs ==
    { SubSeq(<< 1, 2, 3, 4 >>, 1, k) : k \in 0..MaxBuf }

\* The errors a write may return.
WriteErrors == {"Interrupted", "BrokenPipe"}

\* Ok(n) and Err(e), the values of Result<usize>.
Ok(n) == [ok |-> TRUE, n |-> n]

Err(e) == [ok |-> FALSE, err |-> e]

\* What a write of `suffix` may return, by the kind of writer: Sink and
\* Vec<u8> take all of it; "partial" takes at least one byte or fails;
\* "stuck" takes nothing; "any" may do whatever the signature allows.
Writers == {"Sink", "VecU8", "partial", "stuck", "any"}

Outcomes(writer, suffix) ==
    CASE writer \in {"Sink", "VecU8"} -> { Ok(Len(suffix)) }
      [] writer = "partial" -> { Ok(n) : n \in 1..Len(suffix) }
                                  \cup { Err(e) : e \in WriteErrors }
      [] writer = "stuck"   -> { Ok(0) }
      [] OTHER              -> { Ok(n) : n \in 0..Len(suffix) }
                                  \cup { Err(e) : e \in WriteErrors }

\* A loop that gives up after the first call of write.
WritingOnce(bytes_written, buf) ==
    bytes_written = 0 /\ Len(buf) > 0

\* while bytes_written < buf.len()
Writing(bytes_written, buf) ==
    bytes_written < Len(buf)

\* &buf[bytes_written..]
Suffix(buf, bytes_written) ==
    SubSeq(buf, bytes_written + 1, Len(buf))

\* bytes_written += self.write(&buf[bytes_written..])?; with `out` what the
\* write returns. Every writer but Sink keeps what it takes, in bytes.
WriteCall(out) ==
    /\ result.op = "write_all"
    /\ result.pc = "while"
    /\ Writing(result.bytes_written, result.buf)
    /\ result.calls < MaxCalls
    /\ out \in Outcomes(result.writer, Suffix(result.buf, result.bytes_written))
    /\ IF out.ok
       THEN /\ result' = [result EXCEPT !.bytes_written = @ + out.n,
                                        !.calls = @ + 1,
                                        !.last = out]
            /\ bytes' = IF result.writer = "Sink" THEN bytes
                        ELSE bytes \o SubSeq(Suffix(result.buf, result.bytes_written),
                                             1, out.n)
       ELSE /\ result' = [result EXCEPT !.calls = @ + 1, !.last = out,
                                        !.pc = "returned", !.ret = out]
            /\ bytes' = bytes
    /\ UNCHANGED << traits, impls, vtables, objects, compiled >>

\* Ok(()) once the loop is left.
WriteAllReturn ==
    /\ result.op = "write_all"
    /\ result.pc = "while"
    /\ ~Writing(result.bytes_written, result.buf)
    /\ result' = [result EXCEPT !.pc = "returned", !.ret = [ok |-> TRUE]]
    /\ UNCHANGED << traits, impls, vtables, objects, bytes, compiled >>

\* let mut bytes_written = 0; on a writer of some kind, with some buffer.
InitWriteAll ==
    /\ traits = TraitDecl
    /\ impls = SourceImpls
    /\ vtables = << >>
    /\ objects = {}
    /\ bytes = << >>
    /\ compiled = << >>
    /\ \E writer \in Writers, buf \in WriteAllBufs :
          result = [op |-> "write_all", writer |-> writer, buf |-> buf,
                    bytes_written |-> 0, calls |-> 0, pc |-> "while",
                    last |-> [ok |-> TRUE], ret |-> [ok |-> TRUE]]

NextWriteAll ==
    \/ \E n \in 0..MaxBuf : WriteCall(Ok(n))
    \/ \E e \in WriteErrors : WriteCall(Err(e))
    \/ WriteAllReturn

\* The program goes on running: a step that can be taken is taken.
SpecWriteAll == InitWriteAll /\ [][NextWriteAll]_vars /\ WF_vars(NextWriteAll)

(***************************************************************************)
(* Properties.                                                             *)
(***************************************************************************)
\* The crate that wrote the impl block introduced its trait or its type.
Owns(crate, trait, type) ==
    traits[trait].crate = crate \/ TypeCrate[type] = crate

\* C3: an impl block is turned down as an orphan whenever the crate writing
\* it introduced neither the trait nor the type, and never when the crate
\* introduced the trait or introduced the type: such a block is accepted and
\* kept. Every block kept is one its crate was entitled to write.
C3_OrphanRule ==
    /\ result.op = "impl" =>
          /\ ~Owns(result.crate, result.trait, result.type)
                => result.answer = "error: orphan"
          /\ Owns(result.crate, result.trait, result.type)
                => /\ result.answer = "ok"
                   /\ [crate |-> result.crate, trait |-> result.trait,
                       type |-> result.type] \in impls
    /\ \A r \in impls : Owns(r.crate, r.trait, r.type)

\* An orphan has just been turned down, after a block was accepted from a
\* crate that has the trait but not the type and one from a crate that has
\* the type but not the trait.
C3_Witness ==
    /\ result.op = "impl"
    /\ result.answer = "error: orphan"
    /\ \E r \in impls :
          traits[r.trait].crate = r.crate /\ TypeCrate[r.type] # r.crate
    /\ \E r \in impls :
          traits[r.trait].crate # r.crate /\ TypeCrate[r.type] = r.crate

\* The traits reached from the traits of S through supertraits, S included.
RECURSIVE Reach(_, _)
Reach(S, n) ==
    IF n = 0 THEN S
    ELSE Reach(S \cup UNION { traits[t].supers : t \in S }, n - 1)

\* The supertraits of a trait, direct or through other supertraits.
Ancestors(trait) ==
    Reach(traits[trait].supers, Cardinality(DOMAIN traits))

\* C4: the bound T: C is not met whenever T lacks an impl of some supertrait
\* of C, direct or reached through other supertraits, even if T has an impl
\* of C itself.
C4_SupertraitsChecked ==
    result.op = "bound" =>
        \A c \in result.bounds :
            (\E s \in Ancestors(c) : ~HasImpl(result.type, s))
                => result.answer = "error: bound not satisfied"

\* The bound was asked of a type that implements the trait and every
\* supertrait the trait names, and lacks one further up.
C4_Witness ==
    /\ result.op = "bound"
    /\ result.answer = "error: bound not satisfied"
    /\ \E c \in result.bounds :
          /\ HasImpl(result.type, c)
          /\ \A s \in traits[c].supers : HasImpl(result.type, s)
          /\ \E s \in Ancestors(c) : ~HasImpl(result.type, s)

\* C6: trait objects of one trait made from values of two types point to
\* different vtables, and a method called on a trait object runs the body
\* the impl of the object's own type gives for that method, on the value the
\* object points to: write on the Vec<u8> appends to it, write on the Sink
\* leaves it alone.
C6_DispatchByType ==
    /\ [](/\ \A o1, o2 \in objects :
                (o1.vtable[1] = o2.vtable[1] /\ TypeOf[o1.data] # TypeOf[o2.data])
                    => /\ o1.vtable # o2.vtable
                       /\ vtables[o1.vtable] # vtables[o2.vtable]
          /\ result.op = "call" =>
                LET m == traits[result.object.vtable[1]].methods[result.slot]
                IN  /\ result.self = result.object.data
                    /\ ~m.default =>
                          result.body = [of |-> TypeOf[result.object.data],
                                         name |-> m.name])
    /\ [][(result'.op = "call" /\ result'.body.name = "write")
              => /\ result'.ret = Len(result'.buf)
                 /\ bytes' = IF result'.object.data = "bytes"
                             THEN bytes \o result'.buf
                             ELSE bytes]_vars

\* Both the Vec<u8> and the Sink are behind a Write trait object, and write
\* has just been called on the one of the Vec<u8>.
C6_Witness ==
    /\ \E o1, o2 \in objects :
          /\ o1.vtable = << "Write", "VecU8" >>
          /\ o2.vtable = << "Write", "Sink" >>
    /\ result.op = "call"
    /\ result.body = [of |-> "VecU8", name |-> "write"]
    /\ result.self = "bytes"
    /\ bytes # << >>

\* The trait has a method whose return type is Self.
ReturnsSelf(trait) ==
    \E i \in 1..Len(traits[trait].methods) : traits[trait].methods[i].selfRet

\* The trait has a method whose return type is Self and that is not excused
\* by `where Self: Sized`.
ReturnsSelfUnexcused(trait) ==
    \E i \in 1..Len(traits[trait].methods) :
        traits[trait].methods[i].selfRet /\ ~traits[trait].methods[i].sized

\* The type implements the trait and all its supertraits.
ImplementsAll(type, trait) ==
    \A t \in {trait} \cup Ancestors(trait) : HasImpl(type, t)

\* Bounds and generic calls on a trait with a method returning Self succeed
\* for the types that implement it.
StaticUseSucceeds ==
    /\ (result.op = "bound"
           /\ \A c \in result.bounds : ReturnsSelf(c) /\ ImplementsAll(result.type, c))
          => result.answer = "ok"
    /\ (result.op = "instantiate"
           /\ \A c \in GenericFn[result.fn] :
                 ReturnsSelf(c) /\ ImplementsAll(result.type, c))
          => result.answer = "ok"

\* C7 as claimed: a value of a type implementing a trait with a method that
\* returns Self cannot be made into a trait object of it, while bounds and
\* generic calls succeed.
C7_Original ==
    /\ (result.op = "convert" /\ ReturnsSelf(result.trait)
           /\ HasImpl(TypeOf[result.value], result.trait))
          => result.answer = "error: cannot be made into an object"
    /\ StaticUseSucceeds

\* C7: a value of a type implementing a trait with a method that returns
\* Self and does not carry `where Self: Sized` cannot be made into a trait
\* object of it, while bounds and generic calls on the trait succeed for
\* that type.
C7_SelfReturning ==
    /\ (result.op = "convert" /\ ReturnsSelfUnexcused(result.trait)
           /\ HasImpl(TypeOf[result.value], result.trait))
          => result.answer = "error: cannot be made into an object"
    /\ StaticUseSucceeds

\* unknown_words::<SortedStringSet> is compiled, and set1 has just been
\* refused as a StringSet trait object.
C7_Witness ==
    /\ \E i \in 1..Len(compiled) :
          compiled[i] = [fn |-> "unknown_words", type |-> "SortedStringSet"]
    /\ result.op = "convert"
    /\ result.value = "set1"
    /\ result.trait = "StringSet"
    /\ ReturnsSelfUnexcused("StringSet")
    /\ result.answer = "error: cannot be made into an object"

\* Some method mentions Self outside the receiver, or has no receiver and
\* no `where Self: Sized`.
IneligibleAsClaimed(trait) ==
    \E i \in 1..Len(traits[trait].methods) :
        LET m == traits[trait].methods[i]
        IN  m.selfArg \/ m.selfRet \/ (~m.receiver /\ ~m.sized)

\* Some method without `where Self: Sized` mentions Self outside the
\* receiver or has no receiver.
Ineligible(trait) ==
    \E i \in 1..Len(traits[trait].methods) :
        LET m == traits[trait].methods[i]
        IN  ~m.sized /\ (m.selfArg \/ m.selfRet \/ ~m.receiver)

\* C8 as claimed: for a value of a type implementing the trait, the trait is
\* refused for trait objects exactly when some method mentions Self outside
\* the receiver or some method has no receiver and is not excused.
C8_Original ==
    (result.op = "convert" /\ ImplementsAll(TypeOf[result.value], result.trait)) =>
        /\ result.answer = "error: cannot be made into an object"
              <=> IneligibleAsClaimed(result.trait)
        /\ ~IneligibleAsClaimed(result.trait) => result.answer = "ok"

\* C8: a trait is refused for trait objects exactly when some method that
\* does not carry `where Self: Sized` mentions Self outside the receiver or
\* has no receiver; when every such method is excused, a value of a type
\* implementing the trait is made into a trait object.
C8_Eligibility ==
    result.op = "convert" =>
        /\ result.answer = "error: cannot be made into an object"
              <=> Ineligible(result.trait)
        /\ (~Ineligible(result.trait)
               /\ ImplementsAll(TypeOf[result.value], result.trait))
              => /\ result.answer = "ok"
                 /\ result.object \in objects
                 /\ result.object.vtable \in DOMAIN vtables

\* set1 has just been made into a trait object of a trait that has an
\* excused method returning Self and no receiver.
C8_Witness ==
    /\ result.op = "convert"
    /\ result.answer = "ok"
    /\ \E i \in 1..Len(traits[result.trait].methods) :
          LET m == traits[result.trait].methods[i]
          IN  m.sized /\ m.selfRet /\ ~m.receiver
    /\ result.object \in objects

\* C10: a second call of a generic function with the same type goes to the
\* compiled copy of the first call and compiles nothing: the copies stay as
\* they are, and there is never more than one copy per function and type.
C10_OneCopy ==
    /\ [](\A i, j \in 1..Len(compiled) : compiled[i] = compiled[j] => i = j)
    /\ [][(result'.op = "instantiate" /\ result'.answer = "ok"
              /\ CopyOf(result'.fn, result'.type) # {})
             => /\ compiled' = compiled
                /\ ~result'.fresh
                /\ result'.copy \in CopyOf(result'.fn, result'.type)]_vars

\* A generic call has just been answered with a copy compiled before.
C10_Witness ==
    /\ result.op = "instantiate"
    /\ result.answer = "ok"
    /\ ~result.fresh
    /\ compiled[result.copy] = [fn |-> result.fn, type |-> result.type]

\* C11: two calls of one generic function with the same type that differ in
\* their lifetimes only go to the same compiled copy: the later one compiles
\* nothing.
C11_LifetimesCollapse ==
    [][(/\ result.op = "instantiate" /\ result.answer = "ok"
        /\ result'.op = "instantiate" /\ result'.answer = "ok"
        /\ result'.fn = result.fn /\ result'.type = result.type
        /\ result'.lifetimes # result.lifetimes)
          => /\ compiled' = compiled
             /\ ~result'.fresh
             /\ result'.copy = result.copy]_vars

\* nearest has just been called on a type with the lifetimes of 't and 'c
\* different from each other, and answered with a copy compiled before.
C11_Witness ==
    /\ result.op = "instantiate"
    /\ result.fn = "nearest"
    /\ result.answer = "ok"
    /\ result.lifetimes[1] # result.lifetimes[2]
    /\ ~result.fresh
    /\ Len(compiled) = 1

\* The impl blocks of a trait for a type.
Records(type, trait) ==
    { r \in impls : r.trait = trait /\ r.type = type }

\* The associated type of the bound that the impl for the type assigns
\* otherwise than the bound asks.
Diverges(type, b) ==
    \E r \in Records(type, b.trait), s \in DOMAIN b.eq :
        r.assoc[s] # (IF b.eq[s] = "N" THEN type ELSE b.eq[s])

\* C12: a type used with a where clause is refused with a type mismatch for
\* every bound trait<slot=X> whose impl for the type assigns the slot a type
\* other than X; when the type implements every trait of the clause and every
\* constrained slot is the type asked for, the use succeeds and resolves every
\* associated type of these traits to what the impl assigns.
C12_AssociatedTypes ==
    result.op = "where" =>
        LET bounds == AssocFn[result.fn]
            type   == result.type
        IN  /\ \A b \in bounds :
                  Diverges(type, b)
                     => /\ result.answer = "error"
                        /\ [trait |-> b.trait, error |-> "type mismatch"]
                              \in result.errors
            /\ (\A b \in bounds : /\ Records(type, b.trait) # {}
                                  /\ ~Diverges(type, b))
                  => /\ result.answer = "ok"
                     /\ DOMAIN result.subst = { b.trait : b \in bounds }
                     /\ \A b \in bounds :
                          /\ DOMAIN result.subst[b.trait] = traits[b.trait].assoc
                          /\ \A r \in Records(type, b.trait) :
                                \A s \in traits[b.trait].assoc :
                                   result.subst[b.trait][s] = r.assoc[s]

\* dot has been refused for Complex, which has all three impls, because
\* multiplying two of them gives an f64.
C12_Witness ==
    /\ result.op = "where"
    /\ result.fn = "dot"
    /\ result.type = "Complex"
    /\ \A b \in AssocFn["dot"] : Records("Complex", b.trait) # {}
    /\ result.errors = { [trait |-> "Mul", error |-> "type mismatch"] }

\* The impl block r leaves method m to the trait's default body.
Omits(r, m) ==
    m.default /\ ("own" \notin DOMAIN r \/ m.name \notin r.own)

\* C13: every vtable generated for a trait and a type has one slot per method
\* of the trait, in the order of the trait's declaration, and slot i holds the
\* body the impl of the trait for the type gives for method i, or the trait's
\* default body when the impl leaves the method out.
C13_TableSlots ==
    \A key \in DOMAIN vtables :
        LET trait   == key[1]
            type    == key[2]
            methods == traits[trait].methods
        IN  /\ DOMAIN vtables[key] = 1..Len(methods)
            /\ \A i \in 1..Len(methods) :
                 \A r \in { x \in impls : x.trait = trait /\ x.type = type } :
                    vtables[key][i] =
                        IF Omits(r, methods[i])
                        THEN [of |-> trait, name |-> methods[i].name]
                        ELSE [of |-> type, name |-> methods[i].name]

\* The vtable of Sink for a trait of two methods with default bodies has been
\* generated, the impl giving a body of its own for the first and leaving the
\* second out.
C13_Witness ==
    /\ << "Drawn", "Sink" >> \in DOMAIN vtables
    /\ Len(traits["Drawn"].methods) = 2
    /\ \A i \in 1..2 : traits["Drawn"].methods[i].default
    /\ vtables[<< "Drawn", "Sink" >>][1] = [of |-> "Sink", name |-> "paint"]
    /\ vtables[<< "Drawn", "Sink" >>][2] = [of |-> "Drawn", name |-> "erase"]

\* C14: once the vtable of a type for a trait has been generated, it stays as
\* it is, every later conversion of a value of the type to the trait gives an
\* object pointing to that same table and generates nothing, and a trait
\* object handed on keeps its table pointer.
C14_TableStable ==
    [][/\ \A k \in DOMAIN vtables :
             k \in DOMAIN vtables' /\ vtables'[k] = vtables[k]
       /\ \A o \in objects : o \in objects'
       /\ (/\ result'.op = "convert"
           /\ result'.answer = "ok"
           /\ << result'.trait, VtableTypeOf[result'.value] >> \in DOMAIN vtables)
             => /\ vtables' = vtables
                /\ result'.object.vtable
                      = << result'.trait, VtableTypeOf[result'.value] >>
       /\ result'.op = "pass"
             => /\ result'.out.vtable = result'.object.vtable
                /\ vtables' = vtables]_vars

\* buf has been made a Write object after bytes, another vector of bytes,
\* had been, with the vtable of Sink generated as well.
C14_Witness ==
    /\ result.op = "convert"
    /\ result.value = "buf"
    /\ result.answer = "ok"
    /\ [data |-> "bytes", vtable |-> result.object.vtable] \in objects
    /\ << "Write", "Sink" >> \in DOMAIN vtables
    /\ DOMAIN vtables = { << "Write", "Sink" >>, << "Write", "VecU8" >> }

RECURSIVE SumOfProducts(_, _, _)
SumOfProducts(v1, v2, i) ==
    IF i > Len(v1) THEN 0
    ELSE v1[i] * v2[i] + SumOfProducts(v1, v2, i + 1)

\* C21: for integer slices v1 and v2 of equal length, dot(v1, v2) returns the
\* sum over all indices i of v1[i] * v2[i], accumulated from the default value
\* zero (so 0 for empty slices).
C21_DotIsSum ==
    (result.op = "dot" /\ Len(result.v1) = Len(result.v2))
        => /\ result.answer = "ok"
           /\ result.ret = SumOfProducts(result.v1, result.v2, 1)

\* Every partial sum and every product on the way fits the type.
RECURSIVE Fits(_, _, _, _)
Fits(v1, v2, i, total) ==
    \/ i > Len(v1)
    \/ /\ ~Overflows(v1[i] * v2[i])
       /\ ~Overflows(total + v1[i] * v2[i])
       /\ Fits(v1, v2, i + 1, total + v1[i] * v2[i])

\* Where nothing overflows on the way, dot returns the sum in either build.
DotInRange ==
    (result.op = "dot" /\ Len(result.v1) = Len(result.v2)
        /\ Fits(result.v1, result.v2, 1, 0))
        => /\ result.answer = "ok"
           /\ result.ret = SumOfProducts(result.v1, result.v2, 1)

\* C23: there is exactly one compiled copy per generic function and type it
\* is used with: a use is answered with the copy of its own function and
\* type, so two types give two copies; copies are only made by a use with a
\* type not used before; and every call in a copy is compiled to the method
\* of the copy's own type, which alone is what running the copy acts on.
C23_OneCopyPerType ==
    /\ [](/\ \A i, j \in 1..Len(compiled) : compiled[i] = compiled[j] => i = j
          /\ (result.op = "instantiate" /\ result.answer = "ok")
                => /\ result.copy \in 1..Len(compiled)
                   /\ compiled[result.copy]
                         = [fn |-> result.fn, type |-> result.type]
          /\ result.op = "run"
                => /\ Len(result.calls) = Len(FnCalls[compiled[result.copy].fn])
                   /\ \A k \in 1..Len(result.calls) :
                        /\ result.calls[k].type = compiled[result.copy].type
                        /\ result.calls[k].body.name
                              = FnCalls[compiled[result.copy].fn][k].name
                        /\ result.calls[k].body.of
                              \in {compiled[result.copy].type,
                                   FnCalls[compiled[result.copy].fn][k].trait}
                        /\ (result.calls[k].body.of = compiled[result.copy].type)
                              <=> ~MethodNamed(FnCalls[compiled[result.copy].fn][k].trait,
                                               result.calls[k].body.name).default)
    /\ [][/\ compiled' # compiled
             => /\ result'.op = "instantiate"
                /\ \A i \in 1..Len(compiled) :
                      compiled[i] # [fn |-> result'.fn, type |-> result'.type]
                /\ compiled' = Append(compiled,
                                      [fn |-> result'.fn, type |-> result'.type])
          /\ result'.op = "run"
             => bytes' = IF compiled[result'.copy].type = "VecU8"
                         THEN bytes \o result'.buf
                         ELSE bytes]_vars

\* say_hello has been used with Vec<u8> and with Sink, which made two copies,
\* and the copy for Vec<u8> has been run and has written to bytes.
C23_Witness ==
    /\ Len(compiled) = 2
    /\ compiled[1].fn = "say_hello"
    /\ compiled[2].fn = "say_hello"
    /\ compiled[1].type # compiled[2].type
    /\ result.op = "run"
    /\ compiled[result.copy].type = "VecU8"
    /\ bytes # << >>

\* C25: the default write_all hands write the part of the buffer not yet
\* written, again and again, and returns Ok only once the bytes written add
\* up to the length of the buffer; it returns whenever every write takes at
\* least one byte or fails (after one call with Sink, whose write takes all),
\* returns the first error of a write as it is, and never returns while write
\* keeps taking nothing of a buffer that is not empty.
C25_WriteAll ==
    /\ [](result.op = "write_all" =>
            /\ (result.pc = "returned" /\ result.ret.ok)
                  => result.bytes_written = Len(result.buf)
            /\ result.writer # "Sink"
                  => bytes = SubSeq(result.buf, 1, result.bytes_written)
            /\ result.writer = "Sink"
                  => /\ result.calls <= 1
                     /\ (result.pc = "returned" /\ Len(result.buf) > 0)
                           => result.calls = 1
            /\ ~result.last.ok
                  => result.pc = "returned" /\ result.ret = result.last
            /\ (result.pc = "returned" /\ ~result.ret.ok)
                  => result.ret = result.last
            /\ (result.writer = "stuck" /\ Len(result.buf) > 0)
                  => result.pc = "while")
    /\ [][result.pc = "returned" => result' = result]_vars
    /\ (result.op = "write_all" /\ result.writer \in {"Sink", "VecU8", "partial"})
          ~> (result.pc = "returned")

\* write_all has returned Ok for a buffer of three bytes after two calls of a
\* write that took a part of what it was handed.
C25_Witness ==
    /\ result.op = "write_all"
    /\ result.writer = "partial"
    /\ Len(result.buf) = 3
    /\ result.pc = "returned"
    /\ result.ret.ok
    /\ result.calls = 2
    /\ bytes = result.buf
====
